---------------------------- MODULE Spec2Model ----------------------------
(***************************************************************************)
(* A model of NQueensSolver (src/nqueens_solver.py): construction, the     *)
(* multi-threaded solve(), the recursive backtracking search run by each   *)
(* worker thread, stop() and get_stats().                                  *)
(*                                                                         *)
(* Boards are functions from rows 0..n-1 to columns, -1 for an empty row,  *)
(* as in the source.  A worker's call stack of solve_recursive frames is   *)
(* represented by its board and its current row: the frame of row r has    *)
(* its loop variable col equal to board[r].                                *)
(***************************************************************************)
EXTENDS Integers, Sequences, FiniteSets, TLC

\* ------------------------------------------------------------- bounds
\* Largest board size explored with the worker threads running.
MaxN == 4
\* Board sizes -MaxNeg..0 are the invalid sizes given to the constructor.
MaxNeg == 2
\* Largest value of multiprocessing.cpu_count().
MaxProcs == 2
\* Number of solve() calls made in sequence on one instance.
MaxRuns == 2
\* Largest board size and processor count for the construction and the
\* partition arithmetic alone.
MaxPartN == 8
MaxPartProcs == 4

\* Largest board size when two threads call solve() on the same object.
MaxSharedN == 2

\* Largest board size with a hook when stop() is called during solve().
MaxHookedN == 3

\* Largest board size, and the number of started threads that get to run,
\* when the order of the solution list is followed on a board with several
\* solutions in one first-row column.
MaxOrderN == 5
MaxScheduled == 2

VARIABLES
    n,               \* self.n
    callback,        \* self.callback: "none", or the behaviour of the hook
    num_threads,     \* self.num_threads
    solutions,       \* self.solutions: a sequence of boards
    states_explored, \* self.states_explored
    stop_flag,       \* self.stop_flag (threading.Event): TRUE when set
    states_lock,     \* self.states_lock: TRUE when locked
    solutions_lock,  \* self.solutions_lock: TRUE when locked
    ctor,            \* the constructor's arguments and its outcome
    caller,          \* the thread calling solve(): position and locals
    threads,         \* solve()'s local list `threads`, with each thread's state
    first,           \* what the first solve() call returned (for comparison)
    visits           \* the solve_recursive calls of the current solve() that
                     \* found the stop flag clear, those of them with
                     \* row = n, and the calls of the hook

vars == <<n, callback, num_threads, solutions, states_explored, stop_flag,
          states_lock, solutions_lock, ctor, caller, threads,
                   first, visits>>

\* ------------------------------------------------------ pure functions
Max(a, b) == IF a >= b THEN a ELSE b
Min(a, b) == IF a <= b THEN a ELSE b
Abs(a) == IF a >= 0 THEN a ELSE 0 - a

\* Python's a // b (floor division) for b # 0.
FloorDiv(a, b) == IF b > 0 THEN a \div b ELSE (0 - a) \div (0 - b)

\* The elements of a sequence.
Elems(s) == {s[i] : i \in 1..Len(s)}

\* [-1] * n with board[0] = start_col (worker_thread).
InitialBoard(nn, start_col) ==
    [r \in 0..(nn - 1) |-> IF r = 0 THEN start_col ELSE -1]

\* is_safe without its diagonal test.
is_safe_columns_only(board, row, col) ==
    \A i \in 0..(row - 1) : board[i] # col

\* is_safe(board, row, col): no queen of rows 0..row-1 in the column or on a
\* diagonal of (row, col).
is_safe(board, row, col) ==
    \A i \in 0..(row - 1) :
        /\ board[i] # col
        /\ Abs(board[i] - col) # Abs(i - row)

\* __init__ without the lower limit of one thread.
NumThreadsNoFloor(nn, use_all_threads, num_processors) ==
    IF use_all_threads
    THEN nn
    ELSE Min(FloorDiv(nn, num_processors), nn)

\* The number of worker threads chosen by __init__.
NumThreads(nn, use_all_threads, num_processors) ==
    IF use_all_threads
    THEN nn
    ELSE Min(Max(1, FloorDiv(nn, num_processors)), nn)

\* What __init__ raises for board size nn: it validates nothing.
CtorRaises(nn) == "none"

\* positions_per_thread of solve() (line 133), which raises
\* ZeroDivisionError when num_threads = 0.
DividesByZero(nt) == nt = 0
PositionsPerThread(nn, nt) == Max(1, FloorDiv(nn, nt))

\* start_pos counted from column 1.
StartPosFromOne(thread_id, ppt) == thread_id * ppt + 1

\* end_pos without the last thread taking the remaining columns.
EndPosNoRemainder(nn, nt, thread_id, ppt) == thread_id * ppt + ppt

\* end_pos taken as the last column of the range, not the one after it.
EndPosInclusive(nn, nt, thread_id, ppt) ==
    IF thread_id = nt - 1 THEN nn ELSE thread_id * ppt + ppt + 1

\* start_pos and end_pos of solve() for thread_id.
StartPos(thread_id, ppt) == thread_id * ppt
EndPos(nn, nt, thread_id, ppt) ==
    IF thread_id = nt - 1 THEN nn ELSE StartPos(thread_id, ppt) + ppt


\* ------------------------------------------- the search of one worker
\* Where a worker's search goes next, as [done, board, row]: done when
\* solve_recursive(board, 1) has returned to worker_thread, else the
\* arguments of the next solve_recursive call.
RECURSIVE LoopFrom(_, _, _, _), ReturnFrom(_, _, _)

\* The for loop of the frame of `row` (lines 101-105), resumed at column
\* `from`: the first safe column is placed and the search recurses; with no
\* safe column left the frame returns.
LoopFrom(nn, board, row, from) ==
    LET safe == {col \in from..(nn - 1) : is_safe(board, row, col)}
    IN  IF safe # {}
        THEN LET col == CHOOSE c \in safe : \A d \in safe : c <= d
             IN  [done |-> FALSE, board |-> [board EXCEPT ![row] = col],
                  row |-> row + 1]
        ELSE ReturnFrom(nn, board, row)

\* A return after which the caller's loop goes on to its next column
\* without line 105 (board[row] = -1).
ReturnFromNoReset(nn, board, row) ==
    IF row = 1
    THEN [done |-> TRUE, board |-> board, row |-> row]
    ELSE LoopFrom(nn, board, row - 1, board[row - 1] + 1)

\* solve_recursive(board, row) returns: its caller, the frame of row - 1,
\* backtracks (board[row - 1] = -1) and goes on with its next column; the
\* frame of row 1 returns to worker_thread.
ReturnFrom(nn, board, row) ==
    IF row = 1
    THEN [done |-> TRUE, board |-> board, row |-> row]
    ELSE LoopFrom(nn, [board EXCEPT ![row - 1] = -1], row - 1,
                  board[row - 1] + 1)

\* The state of a thread that solve() has just started for start_col:
\* worker_thread builds its board and calls solve_recursive(board, 1).
NewThread(nn, start_col) ==
    [start_col |-> start_col, pc |-> "check",
     board |-> InitialBoard(nn, start_col), row |-> 1, loaded |-> 0]

\* A thread moved to the next call of its search, or finished.
Moved(t, next) ==
    [t EXCEPT !.pc = IF next.done THEN "done" ELSE "check",
              !.board = next.board, !.row = next.row, !.loaded = 0]

\* ------------------------------------------------------------ callers
Callers == {"c1", "c2"}

\* The calls each caller will make: k by one thread alone, or k by each of
\* the two.
Alone(k) == [c \in Callers |-> IF c = "c1" THEN k ELSE 0]
Both(k) == [c \in Callers |-> k]

Finished(t) == t.pc \in {"done", "failed"}

\* The state of the object after __init__(nn, cb, use_all_threads), with
\* cpu_count() = num_processors, and of a caller that has not called yet.
Constructed(nn, cb, use_all_threads, num_processors) ==
    /\ n = nn
    /\ callback = cb
    /\ solutions = <<>>
    /\ solutions_lock = FALSE
    /\ stop_flag = FALSE
    /\ num_threads = NumThreads(nn, use_all_threads, num_processors)
    /\ states_explored = 0
    /\ states_lock = FALSE
    /\ ctor = [n |-> nn, use_all_threads |-> use_all_threads,
               num_processors |-> num_processors, raised |-> CtorRaises(nn)]

\* The threads that will call solve(), caller c calls[c] times in sequence,
\* before their first call.
Clients(calls) ==
    /\ caller = [c \in Callers |->
                   [pc |-> "idle", thread_id |-> 0, col |-> 0, ppt |-> 0,
                    ranges |-> <<>>, joined |-> 0, result |-> <<>>,
                    runs |-> 0, calls |-> calls[c]]]
    /\ threads = [c \in Callers |-> <<>>]
    /\ first = [returned |-> FALSE, cancelled |-> FALSE, solutions |-> {},
                states_explored |-> 0]
    /\ visits = [searched |-> 0, full |-> 0, hooked |-> 0]

\* get_stats()
get_stats ==
    [solutions_found |-> Len(solutions), states_explored |-> states_explored,
     threads_used |-> num_threads, board_size |-> n]

\* ------------------------------------------------------------ solve()
\* The loops of lines 135-145 entering the iteration of thread_id: the
\* range of the iteration is recorded, and iterations whose range is empty
\* are passed over; with no iteration left solve() goes on to join.
RECURSIVE SpawnPoint(_, _, _, _, _)
SpawnPoint(nn, nt, ppt, thread_id, ranges) ==
    IF thread_id >= nt
    THEN [join |-> TRUE, thread_id |-> thread_id, col |-> 0, ranges |-> ranges]
    ELSE LET start_pos == StartPos(thread_id, ppt)
             end_pos == EndPos(nn, nt, thread_id, ppt)
             seen == Append(ranges, <<start_pos, end_pos>>)
         IN  IF start_pos < end_pos
             THEN [join |-> FALSE, thread_id |-> thread_id, col |-> start_pos,
                   ranges |-> seen]
             ELSE SpawnPoint(nn, nt, ppt, thread_id + 1, seen)

\* The caller's locals once the loop is at `point`.
AtPoint(cr, point) ==
    [cr EXCEPT !.pc = IF point.join THEN "join" ELSE "spawn",
               !.thread_id = point.thread_id, !.col = point.col,
               !.ranges = point.ranges]

\* solve() is called and runs line 125: a new, empty solution list.
SolveCall(c) ==
    /\ caller[c].pc \in {"idle", "returned", "raised"}
    /\ caller[c].runs < caller[c].calls
    /\ solutions' = <<>>
    /\ threads' = [threads EXCEPT ![c] = <<>>]
    /\ caller' = [caller EXCEPT ![c] =
                    [pc |-> "l126", thread_id |-> 0, col |-> 0, ppt |-> 0,
                     ranges |-> <<>>, joined |-> 0, result |-> <<>>,
                     runs |-> @.runs + 1, calls |-> @.calls]]
    /\ visits' = [searched |-> 0, full |-> 0, hooked |-> 0]
    /\ UNCHANGED <<n, callback, num_threads, states_explored, stop_flag,
                   states_lock, solutions_lock, ctor, first>>

\* solve() without the reset of the counter.
SolveKeepsCounter(c) ==
    /\ caller[c].pc = "l126"
    /\ caller' = [caller EXCEPT ![c].pc = "l127"]
    /\ UNCHANGED <<n, callback, num_threads, solutions, states_explored,
                   stop_flag, states_lock, solutions_lock, ctor, threads,
                   first, visits>>

\* line 126: the counter is reset.
SolveResetCounter(c) ==
    /\ caller[c].pc = "l126"
    /\ states_explored' = 0
    /\ caller' = [caller EXCEPT ![c].pc = "l127"]
    /\ UNCHANGED <<n, callback, num_threads, solutions, stop_flag, states_lock,
                   solutions_lock, ctor, threads,
                   first, visits>>

\* line 127: the stop flag is cleared.
SolveClearStop(c) ==
    /\ caller[c].pc = "l127"
    /\ stop_flag' = FALSE
    /\ caller' = [caller EXCEPT ![c].pc = "l133"]
    /\ UNCHANGED <<n, callback, num_threads, solutions, states_explored,
                   states_lock, solutions_lock, ctor, threads,
                   first, visits>>

\* lines 129-142: positions_per_thread, and the loops are entered.
SolvePartition(c) ==
    /\ caller[c].pc = "l133"
    /\ caller' = [caller EXCEPT ![c] =
                    IF DividesByZero(num_threads)
                    THEN [@ EXCEPT !.pc = "raised"]
                    ELSE LET ppt == PositionsPerThread(n, num_threads)
                         IN  AtPoint([@ EXCEPT !.ppt = ppt],
                                     SpawnPoint(n, num_threads, ppt, 0, <<>>))]
    /\ UNCHANGED <<n, callback, num_threads, solutions, states_explored,
                   stop_flag, states_lock, solutions_lock, ctor, threads,
                   first, visits>>

\* lines 145-148: a thread is created for col, appended and started.
SolveSpawn(c) ==
    /\ caller[c].pc = "spawn"
    /\ LET cr == caller[c]
           end_pos == EndPos(n, num_threads, cr.thread_id, cr.ppt)
       IN  /\ threads' = [threads EXCEPT ![c] = Append(@, NewThread(n, cr.col))]
           /\ caller' = [caller EXCEPT ![c] =
                           IF cr.col + 1 < end_pos
                           THEN [cr EXCEPT !.col = cr.col + 1]
                           ELSE AtPoint(cr, SpawnPoint(n, num_threads, cr.ppt,
                                                       cr.thread_id + 1,
                                                       cr.ranges))]
    /\ UNCHANGED <<n, callback, num_threads, solutions, states_explored,
                   stop_flag, states_lock, solutions_lock, ctor, first, visits>>

\* A join that returns whether or not the thread has ended.
SolveJoinNoWait(c) ==
    /\ caller[c].pc = "join"
    /\ caller[c].joined < Len(threads[c])
    /\ caller' = [caller EXCEPT ![c].joined = @ + 1]
    /\ UNCHANGED <<n, callback, num_threads, solutions, states_explored,
                   stop_flag, states_lock, solutions_lock, ctor, threads,
                   first, visits>>

\* lines 151-152: t.join() on the next thread of the list returns once that
\* thread has ended.
SolveJoin(c) ==
    /\ caller[c].pc = "join"
    /\ caller[c].joined < Len(threads[c])
    /\ Finished(threads[c][caller[c].joined + 1])
    /\ caller' = [caller EXCEPT ![c].joined = @ + 1]
    /\ UNCHANGED <<n, callback, num_threads, solutions, states_explored,
                   stop_flag, states_lock, solutions_lock, ctor, threads,
                   first, visits>>

\* What is kept of the first call's outcome: whether the stop flag was set
\* when it returned and, if it was not, the solutions as a set and the
\* counter.
Outcome ==
    IF stop_flag
    THEN [returned |-> TRUE, cancelled |-> TRUE, solutions |-> {},
          states_explored |-> 0]
    ELSE [returned |-> TRUE, cancelled |-> FALSE, solutions |-> Elems(solutions),
          states_explored |-> states_explored]

\* line 154: every thread is joined and solve() returns self.solutions.
SolveReturn(c) ==
    /\ caller[c].pc = "join"
    /\ caller[c].joined = Len(threads[c])
    /\ caller' = [caller EXCEPT ![c].pc = "returned", ![c].result = solutions]
    /\ first' = IF first.returned THEN first ELSE Outcome
    /\ UNCHANGED <<n, callback, num_threads, solutions, states_explored,
                   stop_flag, states_lock, solutions_lock, ctor, threads,
                   visits>>

\* lines 150-154: what solve() tells its caller about the threads of its
\* list that ended with an exception. The join loop collects nothing from
\* the threads and self.solutions alone is returned.
FailuresReported(c) == {}

\* ------------------------------------------------------------- stop()
\* A stop() that also resets the counter.
StopAndReset ==
    /\ stop_flag' = TRUE
    /\ states_explored' = 0
    /\ UNCHANGED <<n, callback, num_threads, solutions, states_lock,
                   solutions_lock, ctor, caller, threads, first, visits>>

\* lines 156-158: self.stop_flag.set()

Stop ==
    /\ stop_flag' = TRUE
    /\ UNCHANGED <<n, callback, num_threads, solutions, states_explored,
                   states_lock, solutions_lock, ctor, caller, threads,
                   first, visits>>

\* Caller c is inside solve(): line 125 has run and the call has not
\* returned.
InFlight(c) == caller[c].pc \in {"l126", "l127", "l133", "spawn", "join"}

\* stop() called by another thread while a solve() call is in flight.
StopDuringSolve ==
    /\ \E c \in Callers : InFlight(c)
    /\ Stop

\* ---------------------------------------------------- worker threads
\* Thread i of caller c's list is at pc.
At(c, i, pc) == i \in 1..Len(threads[c]) /\ threads[c][i].pc = pc

\* A lock that never blocks.
AlwaysAcquire(lock) == TRUE

\* A lock can be taken when it is not held.
CanAcquire(lock) == ~lock

\* After the hook (lines 94-105): a complete board goes on to be recorded,
\* any other starts the frame's loop at column 0.
AfterCallback(t) ==
    IF t.row = n
    THEN [t EXCEPT !.pc = "sol_acq"]
    ELSE Moved(t, LoopFrom(n, t.board, t.row, 0))

\* One more solve_recursive call of thread t has found the stop flag clear.
Visited(v, t) ==
    [v EXCEPT !.searched = @ + 1,
              !.full = @ + (IF t.row = n THEN 1 ELSE 0)]

\* A solve_recursive that does not look at the stop flag.
CheckIgnoresStop(c, i) ==
    /\ At(c, i, "check")
    /\ LET t == threads[c][i]
       IN  /\ threads' = [threads EXCEPT ![c][i].pc = "states_acq"]
           /\ visits' = Visited(visits, t)
    /\ UNCHANGED <<n, callback, num_threads, solutions, states_explored,
                   stop_flag, states_lock, solutions_lock, ctor, caller,
                   first>>

\* lines 83-84: the stop flag is read at the entry of solve_recursive; when
\* it is set the call returns at once.
Check(c, i) ==
    /\ At(c, i, "check")
    /\ LET t == threads[c][i]
       IN  /\ threads' = [threads EXCEPT ![c][i] =
                         IF stop_flag
                         THEN Moved(t, ReturnFrom(n, t.board, t.row))
                         ELSE [t EXCEPT !.pc = "states_acq"]]
           /\ visits' = IF stop_flag THEN visits ELSE Visited(visits, t)
    /\ UNCHANGED <<n, callback, num_threads, solutions, states_explored,
                   stop_flag, states_lock, solutions_lock, ctor, caller, first>>

\* line 87: states_lock is acquired, and line 88 reads the counter.
StatesAcquire(c, i) ==
    /\ At(c, i, "states_acq")
    /\ CanAcquire(states_lock)
    /\ states_lock' = TRUE
    /\ threads' = [threads EXCEPT ![c][i].pc = "states_inc",
                                  ![c][i].loaded = states_explored]
    /\ UNCHANGED <<n, callback, num_threads, solutions, states_explored,
                   stop_flag, solutions_lock, ctor, caller,
                   first, visits>>

\* A hook that is called for complete boards only.
CallsHookOnSolution(t) == callback # "none" /\ t.row = n

\* line 91: if self.callback
CallsHook(t) == callback # "none"

\* An increment that leaves states_lock held while the hook runs.
StatesIncrementKeepsLock(c, i) ==
    /\ At(c, i, "states_inc")
    /\ LET t == threads[c][i]
       IN  /\ states_explored' = t.loaded + 1
           /\ threads' = [threads EXCEPT ![c][i] =
                            IF CallsHook(t)
                            THEN [t EXCEPT !.pc = "callback", !.loaded = 0]
                            ELSE AfterCallback([t EXCEPT !.loaded = 0])]
           /\ visits' = IF CallsHook(t)
                        THEN [visits EXCEPT !.hooked = @ + 1]
                        ELSE visits
    /\ states_lock' = (callback # "none")
    /\ UNCHANGED <<n, callback, num_threads, solutions, stop_flag,
                   solutions_lock, ctor, caller, first>>

\* line 88: the counter is written, one more than read, and states_lock is
\* released; line 91 then tests self.callback.
StatesIncrement(c, i) ==
    /\ At(c, i, "states_inc")
    /\ LET t == threads[c][i]
       IN  /\ states_explored' = t.loaded + 1
           /\ threads' = [threads EXCEPT ![c][i] =
                            IF CallsHook(t)
                            THEN [t EXCEPT !.pc = "callback", !.loaded = 0]
                            ELSE AfterCallback([t EXCEPT !.loaded = 0])]
           /\ visits' = IF CallsHook(t)
                        THEN [visits EXCEPT !.hooked = @ + 1]
                        ELSE visits
    /\ states_lock' = FALSE
    /\ UNCHANGED <<n, callback, num_threads, solutions, stop_flag,
                   solutions_lock, ctor, caller, first>>

\* The hook handed the thread's own board instead of a copy.
HookArgumentLive(t) == [live |-> TRUE, board |-> t.board]

\* line 92: the hook is handed board[:], a new list with the board's values.
HookArgument(t) == [live |-> FALSE, board |-> t.board]

\* The list the hook was handed, as the hook leaves it: a hook that
\* "mutates" overwrites every row with some value.
HookLeaves(board) ==
    IF callback = "mutates"
    THEN {[r \in DOMAIN board |-> v] : v \in -1..(n - 1)}
    ELSE {board}

\* line 92: the hook is called and returns; the thread's board is what the
\* hook left only if the hook was handed the board itself.
CallbackReturns(c, i) ==
    /\ At(c, i, "callback")
    /\ LET t == threads[c][i]
           arg == HookArgument(t)
       IN  \E left \in HookLeaves(arg.board) :
               threads' = [threads EXCEPT ![c][i] =
                             AfterCallback([t EXCEPT !.board =
                                              IF arg.live THEN left
                                              ELSE t.board])]
    /\ UNCHANGED <<n, callback, num_threads, solutions, states_explored,
                   stop_flag, states_lock, solutions_lock, ctor, caller,
                   first, visits>>

\* A hook that raises in a thread which then ends with states_lock held.
CallbackRaisesHoldingLock(c, i) ==
    /\ At(c, i, "callback")
    /\ callback = "raises"
    /\ threads' = [threads EXCEPT ![c][i].pc = "failed"]
    /\ states_lock' = TRUE
    /\ UNCHANGED <<n, callback, num_threads, solutions, states_explored,
                   stop_flag, solutions_lock, ctor, caller, first, visits>>

\* line 92: the hook raises; nothing catches it in solve_recursive or in
\* worker_thread, and the thread ends.
CallbackRaises(c, i) ==
    /\ At(c, i, "callback")
    /\ callback = "raises"
    /\ threads' = [threads EXCEPT ![c][i].pc = "failed"]
    /\ UNCHANGED <<n, callback, num_threads, solutions, states_explored,
                   stop_flag, states_lock, solutions_lock, ctor, caller,
                   first, visits>>

\* line 96: solutions_lock is acquired.
SolutionsAcquire(c, i) ==
    /\ At(c, i, "sol_acq")
    /\ CanAcquire(solutions_lock)
    /\ solutions_lock' = TRUE
    /\ threads' = [threads EXCEPT ![c][i].pc = "sol_append"]
    /\ UNCHANGED <<n, callback, num_threads, solutions, states_explored,
                   stop_flag, states_lock, ctor, caller,
                   first, visits>>

\* The thread's own board appended instead of a copy: the element of the
\* list is the board as the thread goes on to leave it.
SnapshotLive(t) == ReturnFrom(n, t.board, t.row).board

\* line 97: what is appended is board[:], a new list with the values the
\* board holds at that moment.
Snapshot(t) == t.board

\* A solution put at the front of the list instead of its end.
SolutionsPrepend(c, i) ==
    /\ At(c, i, "sol_append")
    /\ LET t == threads[c][i]
       IN  /\ solutions' = <<Snapshot(t)>> \o solutions
           /\ threads' = [threads EXCEPT ![c][i] =
                            Moved(t, ReturnFrom(n, t.board, t.row))]
    /\ solutions_lock' = FALSE
    /\ UNCHANGED <<n, callback, num_threads, states_explored, stop_flag,
                   states_lock, ctor, caller, first, visits>>

\* An append after which solutions_lock stays held.
SolutionsAppendKeepsLock(c, i) ==
    /\ At(c, i, "sol_append")
    /\ LET t == threads[c][i]
       IN  /\ solutions' = Append(solutions, Snapshot(t))
           /\ threads' = [threads EXCEPT ![c][i] =
                            Moved(t, ReturnFrom(n, t.board, t.row))]
    /\ UNCHANGED <<n, callback, num_threads, states_explored, stop_flag,
                   states_lock, solutions_lock, ctor, caller, first, visits>>

\* lines 97-98: a copy of the board is appended, solutions_lock is released
\* and the call returns.
SolutionsAppend(c, i) ==
    /\ At(c, i, "sol_append")
    /\ LET t == threads[c][i]
       IN  /\ solutions' = Append(solutions, Snapshot(t))
           /\ threads' = [threads EXCEPT ![c][i] =
                            Moved(t, ReturnFrom(n, t.board, t.row))]
    /\ solutions_lock' = FALSE
    /\ UNCHANGED <<n, callback, num_threads, states_explored, stop_flag,
                   states_lock, ctor, caller,
                   first, visits>>

\* ------------------------------------------------------ specifications
CallerStep ==
    \E c \in Callers :
        \/ SolveCall(c)
        \/ SolveResetCounter(c)
        \/ SolveClearStop(c)
        \/ SolvePartition(c)
        \/ SolveSpawn(c)
        \/ SolveJoin(c)
        \/ SolveReturn(c)

WorkerStep ==
    \E c \in Callers : \E i \in 1..Len(threads[c]) :
        \/ Check(c, i)
        \/ StatesAcquire(c, i)
        \/ StatesIncrement(c, i)
        \/ SolutionsAcquire(c, i)
        \/ SolutionsAppend(c, i)

HookStep ==
    \E c \in Callers : \E i \in 1..Len(threads[c]) :
        \/ CallbackReturns(c, i)
        \/ CallbackRaises(c, i)

\* A solver without a hook, of any board size and thread mode, on which
\* solve() is called MaxRuns times in sequence while stop() may be called at
\* any moment.
Init ==
    \E nn \in (0 - MaxNeg)..MaxN, use_all_threads \in BOOLEAN,
       num_processors \in 1..MaxProcs :
        /\ Constructed(nn, "none", use_all_threads, num_processors)
        /\ Clients(Alone(MaxRuns))

Next == CallerStep \/ WorkerStep \/ Stop

Spec == Init /\ [][Next]_vars

\* Construction and the partition of solve() alone, for larger boards and
\* processor counts: solve() is called once and its threads are started but
\* not scheduled.
InitPart ==
    \E nn \in 1..MaxPartN, use_all_threads \in BOOLEAN,
       num_processors \in 1..MaxPartProcs :
        /\ Constructed(nn, "none", use_all_threads, num_processors)
        /\ Clients(Alone(1))

NextPart ==
    \E c \in Callers :
        \/ SolveCall(c)
        \/ SolveResetCounter(c)
        \/ SolveClearStop(c)
        \/ SolvePartition(c)
        \/ SolveSpawn(c)

SpecPart == InitPart /\ [][NextPart]_vars

\* A solver with a hook, which returns at every call, overwrites the board
\* it is handed and returns, or may raise at any call: solve() is called
\* once.
InitHook ==
    \E nn \in 1..MaxN, cb \in {"returns", "mutates", "raises"} :
        /\ Constructed(nn, cb, TRUE, 1)
        /\ Clients(Alone(1))

NextHook == CallerStep \/ WorkerStep \/ HookStep

SpecHook == InitHook /\ [][NextHook]_vars


\* One solver without a hook on which two threads each call solve() once,
\* at any moment: nothing in solve() (lines 118-154) makes one call wait for
\* the other.
InitShared ==
    \E nn \in 1..MaxSharedN :
        /\ Constructed(nn, "none", TRUE, 1)
        /\ Clients(Both(1))

NextShared == CallerStep \/ WorkerStep

SpecShared == InitShared /\ [][NextShared]_vars

\* A solver, without a hook or with one that returns, on which solve() is
\* called once and stop() may be called at any moment of the call. The
\* threads are scheduled fairly: a caller or a worker that can take a step
\* is not held back for ever.
InitCancel ==
    \E nn \in 1..MaxN, cb \in {"none", "returns"} :
        /\ cb = "returns" => nn <= MaxHookedN
        /\ Constructed(nn, cb, TRUE, 1)
        /\ Clients(Alone(1))

HookReturns == \E c \in Callers : \E i \in 1..Len(threads[c]) :
                   CallbackReturns(c, i)

NextCancel == CallerStep \/ WorkerStep \/ HookReturns \/ StopDuringSolve

SpecCancel ==
    /\ InitCancel
    /\ [][NextCancel]_vars
    /\ WF_vars(CallerStep)
    /\ WF_vars(WorkerStep)
    /\ WF_vars(HookReturns)

\* The same solvers with solve() called once and stop() never called, the
\* threads scheduled fairly.
NextFair == CallerStep \/ WorkerStep \/ HookReturns

SpecFair ==
    /\ InitCancel
    /\ [][NextFair]_vars
    /\ WF_vars(CallerStep)
    /\ WF_vars(WorkerStep)
    /\ WF_vars(HookReturns)

\* A solver without a hook on a larger board: solve() is called once and
\* starts its threads, of which the first MaxScheduled are given the
\* processor, in any interleaving, while the others have not run yet.
InitOrder ==
    \E nn \in 4..MaxOrderN :
        /\ Constructed(nn, "none", TRUE, 1)
        /\ Clients(Alone(1))

NextOrder ==
    \/ NextPart
    \/ \E c \in Callers :
           \E i \in 1..Min(Len(threads[c]), MaxScheduled) :
               \/ Check(c, i)
               \/ StatesAcquire(c, i)
               \/ StatesIncrement(c, i)
               \/ SolutionsAcquire(c, i)
               \/ SolutionsAppend(c, i)

SpecOrder == InitOrder /\ [][NextOrder]_vars

\* ------------------------------------------------ reference definitions
\* The queens of rows i and j of placement p attack each other.
Attack(p, i, j) == p[i] = p[j] \/ Abs(p[i] - p[j]) = Abs(i - j)

\* The placements of one queen in each of the first k rows of an nn x nn
\* board in which no two queens attack each other.
Placements(nn, k) ==
    {p \in [0..(k - 1) -> 0..(nn - 1)] :
        \A i \in 0..(k - 1) : \A j \in (i + 1)..(k - 1) : ~Attack(p, i, j)}

\* The complete non-attacking placements of nn queens.
Queens(nn) == Placements(nn, nn)

\* The size of the search tree below the first row: one node for each
\* non-attacking placement of 1..nn rows.
RECURSIVE TreeSizeUpTo(_, _)
TreeSizeUpTo(nn, k) ==
    IF k < 1 THEN 0 ELSE Cardinality(Placements(nn, k)) + TreeSizeUpTo(nn, k - 1)
TreeSize(nn) == TreeSizeUpTo(nn, nn)

\* No element of sequence s occurs twice.
NoDuplicates(s) == \A i, j \in 1..Len(s) : i # j => s[i] # s[j]

\* Caller c's solve() call has returned, and the stop flag is still clear:
\* stop() was not called after the call cleared the flag.
ReturnedUncancelled(c) == caller[c].pc = "returned" /\ ~stop_flag

\* No thread of caller c's call ended by an exception.
NoThreadFailed(c) == \A i \in 1..Len(threads[c]) : threads[c][i].pc # "failed"

\* A board of length n with every value in [0, n), pairwise distinct and
\* with no two on a diagonal.
ValidBoard(b) ==
    /\ DOMAIN b = 0..(n - 1)
    /\ \A i \in 0..(n - 1) : b[i] \in 0..(n - 1)
    /\ \A i \in 0..(n - 1) : \A j \in (i + 1)..(n - 1) :
          b[i] # b[j] /\ Abs(b[i] - b[j]) # Abs(i - j)

\* The ranges [start_pos, end_pos) that the loop of solve() goes through for
\* nt threads, from the iteration of thread_id on.
RECURSIVE RangesFrom(_, _, _, _)
RangesFrom(nn, nt, thread_id, ranges) ==
    LET point == SpawnPoint(nn, nt, PositionsPerThread(nn, nt), thread_id, ranges)
    IN  IF point.join
        THEN point.ranges
        ELSE RangesFrom(nn, nt, point.thread_id + 1, point.ranges)
RangesOf(nn, nt) == RangesFrom(nn, nt, 0, <<>>)

\* r is a sequence of nt non-empty contiguous ranges from 0 to nn, each
\* column of [0, nn) lying in exactly one.
IsPartition(nn, nt, r) ==
    /\ Len(r) = nt
    /\ r[1][1] = 0
    /\ r[nt][2] = nn
    /\ \A k \in 1..nt : r[k][1] < r[k][2]
    /\ \A k \in 1..(nt - 1) : r[k][2] = r[k + 1][1]
    /\ \A col \in 0..(nn - 1) :
          Cardinality({k \in 1..nt : r[k][1] <= col /\ col < r[k][2]}) = 1

\* ---------------------------------------------------------------- claims

\* C1: for N >= 1, with no cancellation and no hook failure, under every
\* interleaving, solve() returns each complete non-attacking placement of N
\* queens exactly once and nothing else: 1 for N=1, 0 for N=2 and 3, 2 for N=4.
C1_SolveReturnsEachSolutionOnce ==
    \A c \in Callers :
        (ReturnedUncancelled(c) /\ NoThreadFailed(c) /\ n >= 1) =>
            /\ Elems(caller[c].result) = Queens(n)
            /\ Len(caller[c].result) = Cardinality(Queens(n))
            /\ n = 1 => Len(caller[c].result) = 1
            /\ n \in {2, 3} => Len(caller[c].result) = 0
            /\ n = 4 => Len(caller[c].result) = 2

C1_Witness ==
    \E c \in Callers :
        ReturnedUncancelled(c) /\ n = 4 /\ Len(caller[c].result) = 2

\* C2: in every reachable state, during a run and after a cancelled run,
\* every element of the solution collection (and of a returned collection) is
\* a board of length N with values in [0, N), pairwise distinct, no two on a
\* diagonal.
C2_SolutionsAreValidBoards ==
    /\ \A k \in 1..Len(solutions) : ValidBoard(solutions[k])
    /\ \A c \in Callers :
          \A k \in 1..Len(caller[c].result) : ValidBoard(caller[c].result[k])

C2_Witness ==
    \E c \in Callers :
        /\ caller[c].pc = "returned"
        /\ stop_flag
        /\ n = 4
        /\ Len(solutions) = 1
        /\ states_explored < TreeSize(n)

\* C3: for a fixed N and no cancellation, states_explored and the number of
\* solutions after solve() returns are functions of N alone: the same in auto
\* and in all-threads mode, for every processor count and every scheduling.
C3_CountsIndependentOfMode ==
    \A c \in Callers :
        (ReturnedUncancelled(c) /\ n >= 1) =>
            /\ get_stats.states_explored = TreeSize(n)
            /\ get_stats.solutions_found = Cardinality(Queens(n))

C3_Witness ==
    \E c \in Callers :
        /\ ReturnedUncancelled(c)
        /\ n = 4
        /\ ~ctor.use_all_threads
        /\ ctor.num_processors = 2
        /\ states_explored = 16

\* C4: for N >= 1 and every processor count, the worker count chosen at
\* construction is N in all-threads mode and max(1, min(N, N div processors)),
\* which lies in [1, N], in auto mode; get_stats() reports it as threads_used.
C4_WorkerCount ==
    ctor.n >= 1 =>
        LET expected == IF ctor.use_all_threads
                        THEN ctor.n
                        ELSE Max(1, Min(ctor.n, ctor.n \div ctor.num_processors))
        IN  /\ expected \in 1..ctor.n
            /\ num_threads = expected
            /\ get_stats.threads_used = expected

C4_Witness ==
    /\ ~ctor.use_all_threads
    /\ ctor.n = 7
    /\ ctor.num_processors = 2
    /\ get_stats.threads_used = 3

\* C5: solve() starts exactly worker_count threads, one per partition, so
\* that threads_used of get_stats() is the number of threads started.
C5_StartsWorkerCountThreads ==
    \A c \in Callers :
        (n >= 1 /\ caller[c].pc \in {"join", "returned"}) =>
            Len(threads[c]) = get_stats.threads_used

\* C6: for N >= 1 and every worker count in [1, N], the ranges computed by
\* solve() are contiguous, pairwise disjoint, non-empty and cover [0, N), and
\* every first-row column starts exactly one search per solve().
C6_RangesPartitionColumns ==
    /\ \A nt \in 1..n : IsPartition(n, nt, RangesOf(n, nt))
    /\ \A c \in Callers :
          caller[c].pc = "join" =>
              /\ caller[c].ranges = RangesOf(n, num_threads)
              /\ Len(threads[c]) = n
              /\ \A i \in 1..Len(threads[c]) :
                    /\ threads[c][i].start_col = i - 1
                    /\ threads[c][i].row = 1

C6_Witness ==
    \E c \in Callers :
        /\ caller[c].pc = "join"
        /\ n = 7
        /\ num_threads = 3
        /\ caller[c].ranges = <<<<0, 2>>, <<2, 4>>, <<4, 7>>>>

\* C7: when stop() is called while solve() is in flight, solve() still
\* returns normally, with a collection that is a subset of the solutions of
\* N and a counter no larger than the uncancelled count.
C7_CancelledRunReturnsSubset ==
    n >= 1 =>
        \A c \in Callers :
            /\ caller[c].pc # "raised"
            /\ caller[c].pc = "returned" =>
                  /\ Elems(caller[c].result) \subseteq Queens(n)
                  /\ NoDuplicates(caller[c].result)
                  /\ states_explored <= TreeSize(n)

C7_Witness ==
    \E c \in Callers :
        /\ caller[c].pc = "returned"
        /\ stop_flag
        /\ n = 4
        /\ Len(caller[c].result) = 1
        /\ states_explored \in 1..(TreeSize(n) - 1)

\* C8: two uncancelled solve() calls in sequence return collections equal as
\* sets and the same states_explored; the second call starts from an empty
\* collection and a zero counter whatever the first left, a cancelled first
\* call included.
C8_SecondCallRepeatsFirst ==
    \A c \in Callers :
        caller[c].runs = 2 =>
            /\ caller[c].pc = "l126" => solutions = <<>>
            /\ caller[c].pc = "l127" => solutions = <<>> /\ states_explored = 0
            /\ (ReturnedUncancelled(c) /\ ~first.cancelled) =>
                  /\ Elems(caller[c].result) = first.solutions
                  /\ states_explored = first.states_explored
            /\ (ReturnedUncancelled(c) /\ first.cancelled /\ n >= 1) =>
                  /\ Elems(caller[c].result) = Queens(n)
                  /\ states_explored = TreeSize(n)

C8_Witness ==
    \E c \in Callers :
        /\ caller[c].runs = 2
        /\ ReturnedUncancelled(c)
        /\ n = 4
        /\ ~first.cancelled
        /\ Len(caller[c].result) = 2

\* C9: constructing a solver with board size 0 or negative ends in
\* InvalidConfiguration at construction, so that no such solver reaches
\* solve().
C9_InvalidSizeRejected ==
    ctor.n < 1 =>
        /\ ctor.raised = "InvalidConfiguration"
        /\ \A c \in Callers : caller[c].pc = "idle"

\* C10: if the hook raises, the failure is caught at the call site and the
\* worker continues: solve() still returns the complete solution set and the
\* full explored-state count.
C10_HookFailureIsolated ==
    \A c \in Callers :
        ReturnedUncancelled(c) =>
            /\ NoThreadFailed(c)
            /\ Elems(caller[c].result) = Queens(n)
            /\ states_explored = TreeSize(n)

\* The threads of caller c's list that ended with an exception.
FailedThreads(c) == {i \in 1..Len(threads[c]) : threads[c][i].pc = "failed"}

\* C11: a worker that ends abnormally is recorded, and solve() reports the
\* failures to its caller after the join: a return of solve() tells of
\* exactly the threads that failed, so that a run with a failed worker is
\* never mistaken for a run without one.
C11_WorkerFailureReported ==
    \A c \in Callers :
        caller[c].pc = "returned" => FailuresReported(c) = FailedThreads(c)

\* C12: when solve() returns, every thread it started has ended; and from
\* then until the same caller calls solve() again no step changes the
\* counter or the solution list.
C12_ReturnAfterAllWorkers ==
    [][\A c \in Callers :
           caller'[c].pc = "returned" =>
               /\ \A i \in 1..Len(threads'[c]) : Finished(threads'[c][i])
               /\ caller[c].pc = "returned" =>
                      /\ states_explored' = states_explored
                      /\ solutions' = solutions]_vars

C12_Witness ==
    \E c \in Callers :
        /\ caller[c].pc = "returned"
        /\ Len(threads[c]) = 4
        /\ states_explored = TreeSize(4)
        /\ stop_flag

\* C13: no increment of the counter and no append of a solution is lost:
\* when solve() has returned, cancelled or not, states_explored is the
\* number of solve_recursive calls that passed the stop check and
\* solutions_found is the number of those calls that had row = n.
C13_NoUpdateLost ==
    \A c \in Callers :
        caller[c].pc = "returned" =>
            /\ get_stats.states_explored = visits.searched
            /\ get_stats.solutions_found = visits.full

\* A thread started by caller c's call is still running.
Running(c) == \E i \in 1..Len(threads[c]) : ~Finished(threads[c][i])

\* C14: a solve() call made while another call on the same object is in
\* flight resets nothing and starts no thread before the other call has
\* passed its join: two calls are never both past line 125 and not yet
\* returned, and threads of two calls never run at the same time.
C14_SolveNotReentrant ==
    \A c, d \in Callers :
        c # d => /\ ~(InFlight(c) /\ InFlight(d))
                 /\ ~(Running(c) /\ Running(d))

\* C15: stop() changes nothing but the flag and is idempotent: a step in
\* which neither a caller of solve() nor a worker moves sets the flag from
\* clear and leaves the solution list, the counter, get_stats() and the
\* locks as they were (with the flag already set it is no step at all). A
\* solve() called with the flag set clears it at line 127 and, if it is not
\* cancelled itself, returns the full result (of a board of size 1 or more).
C15_StopOnlySetsFlag ==
    /\ [][/\ (caller' = caller /\ threads' = threads) =>
                 /\ ~stop_flag /\ stop_flag'
                 /\ solutions' = solutions
                 /\ get_stats' = get_stats
                 /\ UNCHANGED <<states_lock, solutions_lock, ctor, first>>
          /\ \A c \in Callers :
                 (caller[c].pc = "l127" /\ caller'[c].pc # "l127") =>
                     ~stop_flag']_vars
    /\ [](\A c \in Callers :
              (ReturnedUncancelled(c) /\ caller[c].runs = 2
                                      /\ first.cancelled /\ n >= 1) =>
                  /\ Elems(caller[c].result) = Queens(n)
                  /\ get_stats.states_explored = TreeSize(n)
                  /\ get_stats.solutions_found = Cardinality(Queens(n)))

C15_Witness ==
    \E c \in Callers :
        /\ ReturnedUncancelled(c)
        /\ caller[c].runs = 2
        /\ first.cancelled
        /\ n = 4
        /\ Len(solutions) = 2

\* C16: while the stop flag is set, a solve_recursive call that begins (a
\* thread at the stop check) returns, and its step changes neither the
\* counter nor the solution list nor calls the hook; so no thread comes to
\* a new increment, and a thread comes to an append only from the call that
\* had already passed the check: at most one more increment and one more
\* append for each thread. Under fair scheduling a solve() call in flight
\* returns.
C16_CancelledSearchReturns ==
    /\ [][stop_flag =>
              \A c \in Callers :
                  \A i \in 1..Min(Len(threads[c]), Len(threads'[c])) :
                      LET t == threads[c][i]
                          u == threads'[c][i]
                      IN  /\ (t.pc = "check" /\ u # t) =>
                                 /\ u.pc \in {"check", "done"}
                                 /\ states_explored' = states_explored
                                 /\ solutions' = solutions
                          /\ u.pc = "states_acq" => t.pc = "states_acq"
                          /\ u.pc = "callback" => t.pc \in {"states_inc", "callback"}
                          /\ u.pc = "sol_acq" =>
                                 t.pc \in {"states_inc", "callback", "sol_acq"}]_vars
    /\ \A c \in Callers : InFlight(c) ~> (caller[c].pc = "returned")

C16_Witness ==
    \E c \in Callers :
        /\ InFlight(c)
        /\ stop_flag
        /\ n = 4
        /\ Len(solutions) = 1
        /\ \E i \in 1..Len(threads[c]) :
               threads[c][i].pc = "check" /\ threads[c][i].row = 3
        /\ \E i \in 1..Len(threads[c]) : threads[c][i].pc = "sol_append"

\* C17: a stop() issued between the entry of a solve() call and its return
\* is never erased by that call: once the flag is set while the call is in
\* flight, no step of the call clears it.
C17_StopNeverErased ==
    [][\A c \in Callers : (InFlight(c) /\ stop_flag) => stop_flag']_vars

\* C18: at every entry of solve_recursive(board, row), and throughout the
\* call, rows 0..row-1 of the thread's board hold queens in columns of the
\* board, no two in one column or on one diagonal, and rows row..n-1 hold
\* -1: a row is set back to -1 when the call made for its column returns,
\* before the next column is tried.
C18_BoardPrefixPlaced ==
    \A c \in Callers :
        \A i \in 1..Len(threads[c]) :
            LET t == threads[c][i]
            IN  /\ DOMAIN t.board = 0..(n - 1)
                /\ t.row \in 1..n
                /\ \A r \in 0..(t.row - 1) : t.board[r] \in 0..(n - 1)
                /\ \A r \in 0..(t.row - 1) :
                       \A q \in (r + 1)..(t.row - 1) : ~Attack(t.board, r, q)
                /\ \A r \in t.row..(n - 1) : t.board[r] = -1

C18_Witness ==
    \E c \in Callers :
        \E i \in 1..Len(threads[c]) :
            LET t == threads[c][i]
            IN  /\ n = 4
                /\ t.pc = "check"
                /\ t.start_col = 0
                /\ t.row = 2
                /\ t.board[1] = 3

\* C19: the hook is handed a copy of the board: whatever the hook writes
\* into it, the step of the hook leaves the calling thread's board, the
\* other threads and the solution list as a hook that does nothing would,
\* and solve() returns the same solutions and count.
C19_HookGetsCopy ==
    /\ [][callback = "mutates" =>
              \A c \in Callers :
                  \A i \in 1..Min(Len(threads[c]), Len(threads'[c])) :
                      LET t == threads[c][i]
                      IN  (t.pc = "callback" /\ threads'[c][i] # t) =>
                              /\ threads' = [threads EXCEPT ![c][i] =
                                               AfterCallback(t)]
                              /\ solutions' = solutions
                              /\ states_explored' = states_explored]_vars
    /\ [](\A c \in Callers :
              (callback = "mutates" /\ caller[c].pc = "returned") =>
                  /\ Elems(caller[c].result) = Queens(n)
                  /\ Len(caller[c].result) = Cardinality(Queens(n))
                  /\ get_stats.states_explored = TreeSize(n))

C19_Witness ==
    \E c \in Callers :
        /\ callback = "mutates"
        /\ caller[c].pc = "returned"
        /\ n = 4
        /\ Len(caller[c].result) = 2
        /\ get_stats.states_explored = 16

\* C20: a recorded solution is a snapshot: each step leaves the elements
\* the list already holds as they were (until the next solve() starts a new
\* list), whatever the thread that appended them does to its board
\* afterwards, and no element of the list or of a returned result holds -1
\* in any row.
C20_SolutionsAreSnapshots ==
    /\ [][\A k \in 1..Min(Len(solutions), Len(solutions')) :
              solutions'[k] = solutions[k]]_vars
    /\ [](\A k \in 1..Len(solutions) :
              \A r \in DOMAIN solutions[k] : solutions[k][r] # -1)
    /\ [](\A c \in Callers : \A k \in 1..Len(caller[c].result) :
              \A r \in DOMAIN caller[c].result[k] :
                  caller[c].result[k][r] # -1)

C20_Witness ==
    \E c \in Callers :
        \E i \in 1..Len(threads[c]) :
            LET t == threads[c][i]
            IN  /\ n = 4
                /\ Len(solutions) >= 1
                /\ solutions[1][0] = t.start_col
                /\ t.pc = "done"
                /\ t.board[3] = -1
                /\ solutions[1][3] # -1
                /\ \E j \in 1..Len(threads[c]) : threads[c][j].pc = "check"

\* The threads that hold states_lock (inside the with block of lines 87-88)
\* and those that hold solutions_lock (lines 96-97).
HoldsStatesLock == {<<c, i>> \in Callers \X (1..MaxN) : At(c, i, "states_inc")}
HoldsSolutionsLock ==
    {<<c, i>> \in Callers \X (1..MaxN) : At(c, i, "sol_append")}

\* C21: the hook runs while its thread holds neither lock, and no thread
\* holds both: a lock is held exactly when one thread is inside its with
\* block, never by a thread that is in the hook, and whenever some thread
\* is neither finished nor in the hook a thread other than those in the
\* hook can take a step, however long the hooks take to return.
C21_HookHoldsNoLock ==
    /\ states_lock = (HoldsStatesLock # {})
    /\ solutions_lock = (HoldsSolutionsLock # {})
    /\ Cardinality(HoldsStatesLock) <= 1
    /\ Cardinality(HoldsSolutionsLock) <= 1
    /\ HoldsStatesLock \cap HoldsSolutionsLock = {}
    /\ (\E c \in Callers : \E i \in 1..Len(threads[c]) :
            threads[c][i].pc \notin {"callback", "done", "failed"})
           => ENABLED WorkerStep

C21_Witness ==
    \E c \in Callers :
        \E i, j, k \in 1..Len(threads[c]) :
            /\ threads[c][i].pc = "callback"
            /\ threads[c][j].pc = "states_inc"
            /\ threads[c][k].pc = "sol_append"

\* C22: a hook that is configured and returns is called once for each node
\* visited, partial or complete: when solve() has returned, cancelled or
\* not, the calls of the hook are as many as states_explored, and the board
\* of each call has exactly its rows 0..row-1 placed.
C22_HookOncePerNode ==
    \A c \in Callers :
        /\ (callback # "none" /\ caller[c].pc = "returned") =>
               visits.hooked = get_stats.states_explored
        /\ \A i \in 1..Len(threads[c]) :
               LET t == threads[c][i]
                   b == HookArgument(t).board
               IN  t.pc = "callback" =>
                       {r \in DOMAIN b : b[r] # -1} = 0..(t.row - 1)

C22_Witness ==
    \E c \in Callers :
        /\ callback = "returns"
        /\ caller[c].pc = "returned"
        /\ stop_flag
        /\ n = 3
        /\ get_stats.states_explored = 3
        /\ visits.hooked = 3

\* C23: with no stop() and a hook that returns (or none), solve() on a
\* board of size 1 or more terminates under fair scheduling: a call in
\* flight is never stuck, and it leads to the return with every thread at
\* the end of its search and both locks free.
C23_SolveTerminates ==
    /\ [](\A c \in Callers : InFlight(c) => ENABLED NextFair)
    /\ \A c \in Callers :
           InFlight(c) ~>
               /\ caller[c].pc = "returned"
               /\ \A i \in 1..Len(threads[c]) : threads[c][i].pc = "done"
               /\ Len(threads[c]) = n
               /\ ~states_lock
               /\ ~solutions_lock

C23_Witness ==
    \E c \in Callers :
        /\ caller[c].pc = "returned"
        /\ callback = "returns"
        /\ n = 3
        /\ Len(threads[c]) = 3
        /\ \A i \in 1..Len(threads[c]) : threads[c][i].pc = "done"

\* The solutions on the part of the search tree below first-row column col.
QueensFrom(nn, col) == {q \in Queens(nn) : q[0] = col}

\* C24: a thread that ends with an exception leaves the shared state
\* usable: the step in which it fails changes neither the counter nor the
\* solution list, neither lock nor any other thread; no lock is ever held
\* except by a running thread inside its with block; and when solve()
\* returns every thread has ended, both locks are free and each thread that
\* did not fail has published every solution of its column.
C24_FailureLeavesOthers ==
    /\ [][\A c \in Callers :
              \A i \in 1..Min(Len(threads[c]), Len(threads'[c])) :
                  (threads[c][i].pc # "failed"
                       /\ threads'[c][i].pc = "failed") =>
                      /\ solutions' = solutions
                      /\ states_explored' = states_explored
                      /\ states_lock' = states_lock
                      /\ solutions_lock' = solutions_lock
                      /\ \A j \in 1..Len(threads[c]) :
                             j # i => threads'[c][j] = threads[c][j]]_vars
    /\ [](/\ states_lock => HoldsStatesLock # {}
          /\ solutions_lock => HoldsSolutionsLock # {})
    /\ [](\A c \in Callers :
              caller[c].pc = "returned" =>
                  /\ ~states_lock
                  /\ ~solutions_lock
                  /\ \A i \in 1..Len(threads[c]) :
                         LET t == threads[c][i]
                         IN  /\ Finished(t)
                             /\ t.pc = "done" =>
                                    QueensFrom(n, t.start_col)
                                        \subseteq Elems(caller[c].result))

C24_Witness ==
    \E c \in Callers :
        /\ caller[c].pc = "returned"
        /\ callback = "raises"
        /\ n = 4
        /\ Cardinality(FailedThreads(c)) = 2
        /\ Len(caller[c].result) = 2

\* Board a comes before board b in lexicographic order.
LexLess(a, b) ==
    \E k \in DOMAIN a :
        /\ a[k] < b[k]
        /\ \A j \in DOMAIN a : j < k => a[j] = b[j]

\* C25: the solutions of the list that have the same first-row column stand
\* in ascending lexicographic order relative to each other, whatever the
\* interleaving of the threads.
C25_ColumnSolutionsAscend ==
    \A i, j \in 1..Len(solutions) :
        (i < j /\ solutions[i][0] = solutions[j][0]) =>
            LexLess(solutions[i], solutions[j])

C25_Witness ==
    /\ n = 5
    /\ Len(solutions) = 4
    /\ solutions[1][0] = 0
    /\ solutions[2][0] = 1
    /\ solutions[3][0] = 0
    /\ solutions[4][0] = 1

=============================================================================
